---- MODULE Spec2Model ----
(***************************************************************************)
(* Verification model of omnv/ilatex.                                      *)
(*                                                                         *)
(*  - TaskQueuer (src/src/shared/tasks/TaskQueuer.ts): the asynchronous    *)
(*    FIFO runner.  Every await of the code is a suspension point, so a    *)
(*    call of runAllTasks is modelled frame by frame.                      *)
(*  - VisualisationModelExtractor (src/src/core/visualisations/            *)
(*    extractors/VisualisationModelExtractor.ts): the correlation of code  *)
(*    mappings with candidate AST nodes.                                   *)
(***************************************************************************)
EXTENDS Integers, Sequences, FiniteSets, TLC

(***************************************************************************)
(* Bounds of the model.                                                    *)
(***************************************************************************)
\* number of tasks ever submitted to the queuer
MaxTasks == 4
\* largest number of tasks given to one call of add(...)
MaxBatch == 3
\* number of code mappings of the document
MaxMappings == 2
\* number of AST nodes that are a candidate of some provider
MaxNodes == 2
\* code mappings have the line numbers 1..MaxLine, nodes start on lines 0..MaxLine-1
MaxLine == 3
\* nodes start in the columns 0..MaxColumn
MaxColumn == 1
\* number of calls of extractModelsForAllSourceFiles on the same document
MaxRuns == 2
\* a shift moves a position by -MaxDelta..MaxDelta lines and columns
MaxDelta == 1
\* number of shifts applied to one position
MaxShifts == 2
\* number of child nodes of the root of a parsed tree
MaxChildren == 2
\* number of calls of replaceChildNode
MaxReplacements == 1
\* the maximum depths a traversal is bounded by
MaxDepth == 2
\* the default maximum depth, Number.MAX_SAFE_INTEGER: above every depth (the
\* largest integer at hand stands for it)
MAX_SAFE_INTEGER == 2147483647
\* number of visualisations the webview may hold content for
MaxContents == 2
\* number of display requests
MaxRequests == 3

VARIABLES
    \* ---- TaskQueuer ----
    queue,          \* TaskQueuer.queue: the tasks not yet started, head first
    isRunningTask,  \* TaskQueuer.isRunningTask
    drains,         \* the pending chains of runAllTasks invocations
    taskState,      \* per task: "pending", "running", "resolved" or "rejected"
    started,        \* history: the tasks in the order they were started
    nextId,         \* history: identity of the next submitted task
    runningAtAdd,   \* history: per task, the tasks in flight when it was added
    \* ---- VisualisationModelExtractor: the document it works on ----
    codeMappings,   \* codeMappingManager.codeMappings, in their given order
    accepts,        \* per provider, the code mappings its canProvideForCodeMapping accepts
    astNodes,       \* the candidate AST nodes, in document order
    candidateOf,    \* per provider, the nodes the candidates extractor gives it
    \* ---- VisualisationModelExtractor: one call of extractModelsForAllSourceFiles ----
    pc,             \* where the call is: "idle", "files", "exact" or "approx"
    extractedModels,        \* the local extractedModels
    fileEntries,            \* source files the loop of line 83 has still to visit
    sourceFile,             \* the source file of the current iteration
    usefulModelProviders,   \* providers the loop of line 90 has still to visit
    unusedCodeMappings,     \* the local unusedCodeMappings
    unusedAstNodes,         \* the local unusedAstNodes
    warnings,       \* the console.warn calls of the current call
    leftovers,      \* history: what each (provider, file) of the current call left unpaired
    results,        \* history: what each finished call returned
    \* ---- SourceFilePosition ----
    trail,          \* a position as parsed, followed by what each shift made of it
    deltas,         \* history: the shifts applied, in order
    other,          \* another position of the same file, as parsed
    \* ---- AST nodes ----
    nodeType,           \* node -> its type, NoNode while the node does not exist
    childNodes,         \* node -> its child nodes, in order
    observedChildNodes, \* node -> the child nodes it observes
    errors,             \* the console.error log: the nodes that reported a failure
    calls,              \* history: the calls of replaceChildNode
    traversal,          \* the latest call of visitWith: start node, depth, maxDepth
    visits,             \* what the latest traversal passed to the visitor, in order
    \* ---- VisualisationViewManager ----
    visualisationContent,   \* visualisationContentContainerNode: code mapping id -> data-name
    currentlyDisplayedVisualisationView,
    currentlyDisplayedVisualisationPopup,
    enableVisualisations,
    openPopups,         \* the popups on screen
    nextPopup,          \* the next popup to be made
    closings,           \* history: the popups closed, with what the close callback did
    requests            \* history: the number of display requests handled

queuerVars == <<queue, isRunningTask, drains, taskState, started, nextId, runningAtAdd>>

documentVars == <<codeMappings, accepts, astNodes, candidateOf>>

extractionVars == <<pc, extractedModels, fileEntries, sourceFile, usefulModelProviders,
                    unusedCodeMappings, unusedAstNodes, warnings, leftovers, results>>

extractorVars == <<documentVars, extractionVars>>

positionVars == <<trail, deltas, other>>

astVars == <<nodeType, childNodes, observedChildNodes, errors, calls, traversal, visits>>

managerVars == <<visualisationContent, currentlyDisplayedVisualisationView,
                 currentlyDisplayedVisualisationPopup, enableVisualisations,
                 openPopups, nextPopup, closings>>

webviewVars == <<managerVars, requests>>

vars == <<queuerVars, extractorVars, positionVars, astVars, webviewVars>>

Tasks == 1..MaxTasks

Range(s) == {s[i] : i \in DOMAIN s}

(***************************************************************************)
(* TaskQueuer                                                              *)
(***************************************************************************)

\* the tasks that are started and not yet completed
InFlight == {t \in Tasks : taskState[t] = "running"}

\* Array.prototype.push(...tasks): append at the tail, left to right
PushFront(q, tasks) == tasks \o q
Push(q, tasks) == q \o tasks

\* Array.prototype.shift(): the removed element and what is left
Shifted(q) == Head(q)
AfterShift(q) == Tail(q)

\* One chain of runAllTasks invocations.  The innermost invocation either
\* awaits its task (line 30), or has returned, and then the `depth`
\* invocations above it each wait at line 32 for the one below.
DrainAwaitingTask(depth, task) == [pc |-> "L30", depth |-> depth, task |-> task]
DrainUnwinding(depth) == [pc |-> "L32", depth |-> depth, task |-> 0]

\* the chains before and after the i-th one
DrainsBefore(i) == SubSeq(drains, 1, i - 1)
DrainsAfter(i) == SubSeq(drains, i + 1, Len(drains))

\* runAllTasks, from its call up to its first suspension point.  `q` is the
\* queue at the call, `depth` the number of invocations of the chain that wait
\* for this one, `before` and `after` the other pending chains.
RunAllTasks(q, depth, before, after) ==
    IF Len(q) = 0
    THEN \* line 23-25: nothing to run, the invocation returns at once
         /\ queue' = q
         /\ drains' = before \o (IF depth = 0 THEN <<>> ELSE <<DrainUnwinding(depth)>>) \o after
         /\ UNCHANGED <<isRunningTask, taskState, started>>
    ELSE \* line 27-30: raise the flag, take the head and start it
         /\ isRunningTask' = TRUE
         /\ queue' = AfterShift(q)
         /\ taskState' = [taskState EXCEPT ![Shifted(q)] = "running"]
         /\ started' = Append(started, Shifted(q))
         /\ drains' = before \o <<DrainAwaitingTask(depth, Shifted(q))>> \o after

\* add(...tasks), lines 12-20
Add(k) ==
    /\ nextId + k - 1 <= MaxTasks
    /\ LET tasks == [i \in 1..k |-> nextId + i - 1]
           q == Push(queue, tasks)
       IN /\ nextId' = nextId + k
          /\ runningAtAdd' = [t \in Tasks |->
                IF t \in Range(tasks) THEN InFlight ELSE runningAtAdd[t]]
          /\ IF ~isRunningTask
             THEN RunAllTasks(q, 0, drains, <<>>)
             ELSE /\ queue' = q
                  /\ UNCHANGED <<isRunningTask, drains, taskState, started>>

\* the promise returned by a started task resolves
Complete(t) ==
    /\ taskState[t] = "running"
    /\ taskState' = [taskState EXCEPT ![t] = "resolved"]
    /\ UNCHANGED <<queue, isRunningTask, drains, started, nextId, runningAtAdd>>

\* the promise returned by a started task rejects (or the task throws)
Fail(t) ==
    /\ taskState[t] = "running"
    /\ taskState' = [taskState EXCEPT ![t] = "rejected"]
    /\ UNCHANGED <<queue, isRunningTask, drains, started, nextId, runningAtAdd>>

\* line 30 -> 32: the awaited task has resolved, the invocation goes on and
\* calls runAllTasks again
ResumeAfterTask(i) ==
    /\ i \in DOMAIN drains
    /\ drains[i].pc = "L30"
    /\ taskState[drains[i].task] = "resolved"
    /\ RunAllTasks(queue, drains[i].depth + 1, DrainsBefore(i), DrainsAfter(i))
    /\ UNCHANGED <<nextId, runningAtAdd>>

\* line 30: the awaited task has failed; the await throws, the invocation's
\* promise rejects and so does the promise of every invocation waiting for
\* it.  None of them reaches line 34.
ThrowAfterTask(i) ==
    /\ i \in DOMAIN drains
    /\ drains[i].pc = "L30"
    /\ taskState[drains[i].task] = "rejected"
    /\ drains' = DrainsBefore(i) \o DrainsAfter(i)
    /\ UNCHANGED <<queue, isRunningTask, taskState, started, nextId, runningAtAdd>>

\* line 32 -> 34: the invocation below has returned; lower the flag, return
Unwind(i) ==
    /\ i \in DOMAIN drains
    /\ drains[i].pc = "L32"
    /\ isRunningTask' = FALSE
    /\ drains' = DrainsBefore(i)
            \o (IF drains[i].depth = 1 THEN <<>> ELSE <<DrainUnwinding(drains[i].depth - 1)>>)
            \o DrainsAfter(i)
    /\ UNCHANGED <<queue, taskState, started, nextId, runningAtAdd>>

QueuerInit ==
    /\ queue = <<>>
    /\ isRunningTask = FALSE
    /\ drains = <<>>
    /\ taskState = [t \in Tasks |-> "pending"]
    /\ started = <<>>
    /\ nextId = 1
    /\ runningAtAdd = [t \in Tasks |-> {}]

AddAny == (\E k \in 0..MaxBatch : Add(k)) /\ UNCHANGED <<extractorVars, positionVars, astVars, webviewVars>>
CompleteAny == (\E t \in Tasks : Complete(t)) /\ UNCHANGED <<extractorVars, positionVars, astVars, webviewVars>>
FailAny == (\E t \in Tasks : Fail(t)) /\ UNCHANGED <<extractorVars, positionVars, astVars, webviewVars>>
ResumeAny == (\E i \in DOMAIN drains : ResumeAfterTask(i)) /\ UNCHANGED <<extractorVars, positionVars, astVars, webviewVars>>
ThrowAny == (\E i \in DOMAIN drains : ThrowAfterTask(i)) /\ UNCHANGED <<extractorVars, positionVars, astVars, webviewVars>>
UnwindAny == (\E i \in DOMAIN drains : Unwind(i)) /\ UNCHANGED <<extractorVars, positionVars, astVars, webviewVars>>

QueuerNext ==
    \/ AddAny
    \/ CompleteAny
    \/ FailAny
    \/ ResumeAny
    \/ ThrowAny
    \/ UnwindAny

(***************************************************************************)
(* VisualisationModelExtractor                                             *)
(***************************************************************************)

\* MODEL_PROVIDERS, in the order of the list (two of the four providers)
MODEL_PROVIDERS == <<"mathematics", "gridlayout">>
Providers == Range(MODEL_PROVIDERS)

SourceFiles == {"main.tex"}
\* getSourceFileOfCodeMapping found no source file
NoSourceFile == "none"

Min(a, b) == IF a <= b THEN a ELSE b

\* the distinct elements of s, each at its first occurrence (the keys of an
\* ArrayMap filled in the order of s)
RECURSIVE FirstOccurrences(_)
FirstOccurrences(s) ==
    IF s = <<>> THEN <<>>
    ELSE LET init == FirstOccurrences(SubSeq(s, 1, Len(s) - 1))
             last == s[Len(s)]
         IN IF last \in Range(init) THEN init ELSE Append(init, last)

\* SourceFilePosition: where a node starts
Position(line, column) ==
    [initialLine |-> line, initialColumn |-> column, shift |-> [lines |-> 0, columns |-> 0]]
EffectiveLine(p) == p.initialLine + p.shift.lines
EffectiveColumn(p) == p.initialColumn + p.shift.columns

\* SourceFilePosition.compareInAscendingOrder: negative, zero or positive
CompareInitialCoordinates(p1, p2) ==
    IF p1.initialLine # p2.initialLine
    THEN p1.initialLine - p2.initialLine
    ELSE p1.initialColumn - p2.initialColumn
CompareInAscendingOrder(p1, p2) ==
    IF EffectiveLine(p1) # EffectiveLine(p2)
    THEN EffectiveLine(p1) - EffectiveLine(p2)
    ELSE EffectiveColumn(p1) - EffectiveColumn(p2)

\* the documents the extractor may be given
CodeMappingsOfSize(n) ==
    {[i \in 1..n |-> [id |-> i, sourceFile |-> fs[i], lineNumber |-> ls[i]]] :
        fs \in [1..n -> SourceFiles \cup {NoSourceFile}], ls \in [1..n -> 1..MaxLine]}
AstNodesOfSize(n) ==
    {[i \in 1..n |-> [id |-> i, sourceFile |-> fs[i], from |-> Position(ls[i], cs[i])]] :
        fs \in [1..n -> SourceFiles], ls \in [1..n -> 0..(MaxLine - 1)], cs \in [1..n -> 0..MaxColumn]}
\* the candidates extractor walks the tree in document order
InDocumentOrder(nodes) ==
    \A i, j \in DOMAIN nodes :
        (i < j /\ nodes[i].sourceFile = nodes[j].sourceFile)
            => CompareInAscendingOrder(nodes[i].from, nodes[j].from) <= 0

\* modelProvider.canProvideForCodeMapping(codeMapping)
CanProvideForCodeMapping(provider, codeMapping) == codeMapping.id \in accepts[provider]

\* mapSourceFilesToCodeMappings, lines 38-50: the keys, in insertion order
SourceFilesWithCodeMappings ==
    FirstOccurrences([i \in DOMAIN
        SelectSeq(codeMappings, LAMBDA cm : cm.sourceFile # NoSourceFile) |->
            SelectSeq(codeMappings, LAMBDA cm : cm.sourceFile # NoSourceFile)[i].sourceFile])
\* ... and the values of a key
CodeMappingsOfAnySourceFile(file) == codeMappings
CodeMappingsOfSourceFile(file) ==
    SelectSeq(codeMappings, LAMBDA cm : cm.sourceFile = file)

\* mapModelProvidersToCodeMappings, lines 52-64: the values of a key
CodeMappingsOfProvider(provider, file) ==
    SelectSeq(CodeMappingsOfSourceFile(file), LAMBDA cm : CanProvideForCodeMapping(provider, cm))
\* ... and the keys, in insertion order: code mappings outside, providers inside
RECURSIVE ProvidersWithCodeMappings(_)
ProvidersWithCodeMappings(cms) ==
    IF cms = <<>> THEN <<>>
    ELSE FirstOccurrences(
            ProvidersWithCodeMappings(SubSeq(cms, 1, Len(cms) - 1))
            \o SelectSeq(MODEL_PROVIDERS, LAMBDA mp : CanProvideForCodeMapping(mp, cms[Len(cms)])))

\* astNodeCandidatesExtractor.runOnSourceFile(sourceFile): the values of a key
CandidateAstNodes(provider, file) ==
    SelectSeq(astNodes, LAMBDA n : n.sourceFile = file /\ n.id \in candidateOf[provider])

\* lines 86-88: the providers with code mappings and with candidates
UsefulModelProviders(file) ==
    SelectSeq(ProvidersWithCodeMappings(CodeMappingsOfSourceFile(file)),
              LAMBDA mp : CandidateAstNodes(mp, file) # <<>>)

\* addModelWith, lines 68-79 (`phase` is a label of the model, not of the code)
Model(provider, node, codeMapping, file, phase) ==
    [provider |-> provider, astNode |-> node, codeMapping |-> codeMapping,
     sourceFile |-> file, phase |-> phase]

\* lines 99-112: the node the inner loop pairs the code mapping with (<<n>>),
\* or none (<<>>): the first node on the line before the mapping's that is
\* still unused
ExactMatchAnyNode(nodes, unusedNodes, codeMapping) ==
    LET hits == SelectSeq(nodes, LAMBDA n : n.from.initialLine = codeMapping.lineNumber - 1)
    IN IF hits = <<>> THEN <<>> ELSE <<hits[1]>>
ExactMatchLastNode(nodes, unusedNodes, codeMapping) ==
    LET hits == SelectSeq(nodes, LAMBDA n :
                    /\ n.from.initialLine = codeMapping.lineNumber - 1
                    /\ n \in unusedNodes)
    IN IF hits = <<>> THEN <<>> ELSE <<hits[Len(hits)]>>
ExactMatchFirstNodeOnly(nodes, unusedNodes, codeMapping) ==
    LET hits == SelectSeq(nodes, LAMBDA n : n.from.initialLine = codeMapping.lineNumber - 1)
    IN IF hits = <<>> \/ hits[1] \notin unusedNodes THEN <<>> ELSE <<hits[1]>>
ExactMatch(nodes, unusedNodes, codeMapping) ==
    LET hits == SelectSeq(nodes, LAMBDA n :
                    /\ n.from.initialLine = codeMapping.lineNumber - 1
                    /\ n \in unusedNodes)
    IN IF hits = <<>> THEN <<>> ELSE <<hits[1]>>

\* lines 94-113: the exact-match phase over the first k code mappings
RECURSIVE ExactMatchLoop(_, _, _, _, _)
ExactMatchLoop(provider, file, cms, nodes, k) ==
    IF k = 0
    THEN [models |-> <<>>, unusedCodeMappings |-> Range(cms), unusedAstNodes |-> Range(nodes)]
    ELSE LET before == ExactMatchLoop(provider, file, cms, nodes, k - 1)
             match == ExactMatch(nodes, before.unusedAstNodes, cms[k])
         IN IF match = <<>> THEN before
            ELSE [models |-> Append(before.models,
                                    Model(provider, match[1], cms[k], file, "exact")),
                  unusedCodeMappings |-> before.unusedCodeMappings \ {cms[k]},
                  unusedAstNodes |-> before.unusedAstNodes \ {match[1]}]

\* [...set] of a Set filled in the order of the array s
SetToArray(s, set) == SelectSeq(s, LAMBDA x : x \in set)

\* t holds the elements of s, each as often as s does
IsPermutationOf(t, s) ==
    /\ Len(t) = Len(s)
    /\ \E f \in [DOMAIN s -> DOMAIN s] :
         /\ \A i, j \in DOMAIN s : i # j => f[i] # f[j]
         /\ \A i \in DOMAIN s : t[i] = s[f[i]]

\* line 117-118: .sort((cm1, cm2) => cm1.lineNumber - cm2.lineNumber).  The
\* sort is stable: equal elements keep their order.
RankByLineNumber(s, i) ==
    1 + Cardinality({j \in DOMAIN s :
            \/ s[j].lineNumber < s[i].lineNumber
            \/ s[j].lineNumber = s[i].lineNumber /\ j < i})
NoSortByLineNumber(s) == {s}
AnySortByLineNumber(s) ==
    {t \in [DOMAIN s -> Range(s)] :
        /\ IsPermutationOf(t, s)
        /\ \A i, j \in DOMAIN t : i < j => t[i].lineNumber <= t[j].lineNumber}
SortByLineNumber(s) ==
    {[k \in DOMAIN s |-> s[CHOOSE i \in DOMAIN s : RankByLineNumber(s, i) = k]]}

\* line 119-120: .sort((node1, node2) => compareInAscendingOrder(...))
RankByStartPosition(s, i) ==
    1 + Cardinality({j \in DOMAIN s :
            \/ CompareInAscendingOrder(s[j].from, s[i].from) < 0
            \/ CompareInAscendingOrder(s[j].from, s[i].from) = 0 /\ j < i})
SortByStartPosition(s) ==
    {[k \in DOMAIN s |-> s[CHOOSE i \in DOMAIN s : RankByStartPosition(s, i) = k]]}

\* lines 126-133: the pairs of the approximate phase
FirstApproximateModel(provider, file, sortedCodeMappings, sortedNodes) ==
    [i \in 1..Min(1, Min(Len(sortedCodeMappings), Len(sortedNodes))) |->
        Model(provider, sortedNodes[i], sortedCodeMappings[i], file, "approximate")]
ApproximateModels(provider, file, sortedCodeMappings, sortedNodes) ==
    [i \in 1..Min(Len(sortedCodeMappings), Len(sortedNodes)) |->
        Model(provider, sortedNodes[i], sortedCodeMappings[i], file, "approximate")]

Warning(provider, file, kind, items) ==
    [provider |-> provider, sourceFile |-> file, kind |-> kind, items |-> items]

\* line 66-81: a call begins
ExtractBegin ==
    /\ pc = "idle"
    /\ Len(results) < MaxRuns
    /\ extractedModels' = <<>>
    /\ warnings' = {}
    /\ leftovers' = {}
    /\ fileEntries' = SourceFilesWithCodeMappings
    /\ pc' = "files"
    /\ UNCHANGED <<sourceFile, usefulModelProviders, unusedCodeMappings, unusedAstNodes, results>>

\* lines 83-88: the next source file and its useful providers
ExtractNextSourceFile ==
    /\ pc = "files"
    /\ fileEntries # <<>>
    /\ sourceFile' = Head(fileEntries)
    /\ fileEntries' = Tail(fileEntries)
    /\ usefulModelProviders' = UsefulModelProviders(Head(fileEntries))
    /\ pc' = IF UsefulModelProviders(Head(fileEntries)) = <<>> THEN "files" ELSE "exact"
    /\ UNCHANGED <<extractedModels, unusedCodeMappings, unusedAstNodes, warnings, leftovers, results>>

\* lines 90-113: the next provider, phase 1
ExactMatchPhase ==
    /\ pc = "exact"
    /\ LET provider == Head(usefulModelProviders)
           phase == ExactMatchLoop(provider, sourceFile,
                        CodeMappingsOfProvider(provider, sourceFile),
                        CandidateAstNodes(provider, sourceFile),
                        Len(CodeMappingsOfProvider(provider, sourceFile)))
       IN /\ extractedModels' = extractedModels \o phase.models
          /\ unusedCodeMappings' = phase.unusedCodeMappings
          /\ unusedAstNodes' = phase.unusedAstNodes
    /\ pc' = "approx"
    /\ UNCHANGED <<fileEntries, sourceFile, usefulModelProviders, warnings, leftovers, results>>

\* lines 115-143: phase 2 and the warnings, then on to the next provider
ApproximatePhase ==
    /\ pc = "approx"
    /\ LET provider == Head(usefulModelProviders)
           cms == SetToArray(CodeMappingsOfProvider(provider, sourceFile), unusedCodeMappings)
           nodes == SetToArray(CandidateAstNodes(provider, sourceFile), unusedAstNodes)
       IN IF unusedCodeMappings # {} /\ unusedAstNodes # {}
          THEN \E sortedCms \in SortByLineNumber(cms), sortedNodes \in SortByStartPosition(nodes) :
                LET models == ApproximateModels(provider, sourceFile, sortedCms, sortedNodes)
                    restCms == unusedCodeMappings \ {models[i].codeMapping : i \in DOMAIN models}
                    restNodes == unusedAstNodes \ {models[i].astNode : i \in DOMAIN models}
                IN /\ extractedModels' = extractedModels \o models
                   /\ unusedCodeMappings' = restCms
                   /\ unusedAstNodes' = restNodes
                   /\ warnings' = warnings
                        \cup (IF restCms # {}
                              THEN {Warning(provider, sourceFile, "codeMappings", restCms)} ELSE {})
                        \cup (IF restNodes # {}
                              THEN {Warning(provider, sourceFile, "astNodes", restNodes)} ELSE {})
                   /\ leftovers' = leftovers \cup
                        {[provider |-> provider, sourceFile |-> sourceFile,
                          codeMappings |-> restCms, astNodes |-> restNodes]}
          ELSE /\ leftovers' = leftovers \cup
                        {[provider |-> provider, sourceFile |-> sourceFile,
                          codeMappings |-> unusedCodeMappings, astNodes |-> unusedAstNodes]}
               /\ UNCHANGED <<extractedModels, unusedCodeMappings, unusedAstNodes, warnings>>
    /\ usefulModelProviders' = Tail(usefulModelProviders)
    /\ pc' = IF Tail(usefulModelProviders) = <<>> THEN "files" ELSE "exact"
    /\ UNCHANGED <<fileEntries, sourceFile, results>>

\* line 146: the call returns
ExtractReturn ==
    /\ pc = "files"
    /\ fileEntries = <<>>
    /\ results' = Append(results, extractedModels)
    /\ pc' = "idle"
    /\ UNCHANGED <<extractedModels, fileEntries, sourceFile, usefulModelProviders,
                   unusedCodeMappings, unusedAstNodes, warnings, leftovers>>

\* no call of extractModelsForAllSourceFiles has been made yet
ExtractionInit ==
    /\ pc = "idle"
    /\ extractedModels = <<>>
    /\ fileEntries = <<>>
    /\ sourceFile = NoSourceFile
    /\ usefulModelProviders = <<>>
    /\ unusedCodeMappings = {}
    /\ unusedAstNodes = {}
    /\ warnings = {}
    /\ leftovers = {}
    /\ results = <<>>

\* a document without code mappings and without candidate nodes
EmptyDocument ==
    /\ codeMappings = <<>>
    /\ accepts = [p \in Providers |-> {}]
    /\ astNodes = <<>>
    /\ candidateOf = [p \in Providers |-> {}]

\* any document within the bounds; every node of astNodes is a candidate of
\* some provider
AnyDocument ==
    /\ \E n \in 0..MaxMappings :
         /\ codeMappings \in CodeMappingsOfSize(n)
         /\ accepts \in [Providers -> SUBSET (1..n)]
    /\ \E n \in 0..MaxNodes :
         /\ astNodes \in {nodes \in AstNodesOfSize(n) : InDocumentOrder(nodes)}
         /\ candidateOf \in {c \in [Providers -> SUBSET (1..n)] :
                                \A i \in 1..n : \E mp \in Providers : i \in c[mp]}

ExtractorNext ==
    \/ ExtractBegin /\ UNCHANGED <<queuerVars, documentVars, positionVars, astVars, webviewVars>>
    \/ ExtractNextSourceFile /\ UNCHANGED <<queuerVars, documentVars, positionVars, astVars, webviewVars>>
    \/ ExactMatchPhase /\ UNCHANGED <<queuerVars, documentVars, positionVars, astVars, webviewVars>>
    \/ ApproximatePhase /\ UNCHANGED <<queuerVars, documentVars, positionVars, astVars, webviewVars>>
    \/ ExtractReturn /\ UNCHANGED <<queuerVars, documentVars, positionVars, astVars, webviewVars>>

(***************************************************************************)
(* SourceFilePosition                                                      *)
(***************************************************************************)

Delta(lines, columns) == [lines |-> lines, columns |-> columns]
Deltas == {Delta(l, c) : l \in (-MaxDelta)..MaxDelta, c \in (-MaxDelta)..MaxDelta}
\* the positions the parser makes
ParsedPositions == {Position(l, c) : l \in 0..(MaxLine - 1), c \in 0..MaxColumn}

\* shifting once by both deltas
SumOfDeltas(d1, d2) == Delta(d1.lines + d2.lines, d1.columns + d2.columns)

\* shift(position, delta): a new position; the shift of lines adds up, the
\* shift of columns adds up too unless the delta moves lines, which resets it
ShiftForgettingColumns(p, d) ==
    [p EXCEPT !.shift = [lines |-> p.shift.lines + d.lines,
                         columns |-> IF d.lines # 0 THEN 0 ELSE d.columns]]
Shift(p, d) ==
    [p EXCEPT !.shift = [lines |-> p.shift.lines + d.lines,
                         columns |-> IF d.lines # 0 THEN 0
                                     ELSE p.shift.columns + d.columns]]

\* the latest version of the position
Current == trail[Len(trail)]

\* an edit of the text shifts the position
ShiftBy(d) ==
    /\ Len(deltas) < MaxShifts
    /\ trail' = Append(trail, Shift(Current, d))
    /\ deltas' = Append(deltas, d)
    /\ UNCHANGED other

ShiftAny == (\E d \in Deltas : ShiftBy(d)) /\ UNCHANGED <<queuerVars, extractorVars, astVars, webviewVars>>

\* no position is tracked
NoPositions ==
    /\ trail = <<Position(0, 0)>>
    /\ deltas = <<>>
    /\ other = Position(0, 0)

\* a position as the parser made it
OnePositionInit ==
    /\ \E p \in ParsedPositions : trail = <<p>>
    /\ deltas = <<>>
    /\ other = Position(0, 0)

\* two positions as the parser made them
PositionsInit ==
    /\ \E p \in ParsedPositions : trail = <<p>>
    /\ deltas = <<>>
    /\ other \in ParsedPositions

PositionNext == ShiftAny

(***************************************************************************)
(* AST nodes                                                               *)
(***************************************************************************)

NodeIds == 1..(1 + 2 * MaxChildren + MaxReplacements)
NoNode == "none"
Root == 1
Nodes == {n \in NodeIds : nodeType[n] # NoNode}
NodesOfType(type) == {n \in NodeIds : nodeType[n] = type}
\* the nodes found in a LaTeX block
ChildKinds == {"text", "inline-math", "square-braces-parameter-block"}
\* InlineMathNode.content is a MathNode, the content of a
\* SquareBracesParameterBlockNode is a parameter
ContentType(type) == IF type = "inline-math" THEN "math" ELSE "parameter"

\* the tree the parser makes of a block of the given kinds of nodes: the root
\* is node 1, its i-th child node 1+i, the content of that child 1+MaxChildren+i
ParsedNodeType(kinds) ==
    [n \in NodeIds |->
        IF n = Root THEN "latex"
        ELSE IF n - 1 \in DOMAIN kinds THEN kinds[n - 1]
        ELSE IF n - 1 - MaxChildren \in DOMAIN kinds /\ kinds[n - 1 - MaxChildren] # "text"
             THEN ContentType(kinds[n - 1 - MaxChildren])
        ELSE NoNode]
ParsedChildNodes(kinds) ==
    [n \in NodeIds |->
        IF n = Root THEN [i \in DOMAIN kinds |-> i + 1]
        ELSE IF n - 1 \in DOMAIN kinds /\ kinds[n - 1] # "text" THEN <<n + MaxChildren>>
        ELSE <<>>]

\* visitor.visit(node, depth), visitor.visitInlineMathNode(node, depth)
Visit(n, depth) == [node |-> n, depth |-> depth]

\* visitWith(visitor, depth, maxDepth): the calls of the visitor, in order
RECURSIVE VisitWith(_, _, _)
RECURSIVE VisitAllWith(_, _, _)
VisitAllWith(ns, depth, maxDepth) ==
    IF ns = <<>> THEN <<>>
    ELSE VisitWith(Head(ns), depth, maxDepth) \o VisitAllWith(Tail(ns), depth, maxDepth)
VisitWith(n, depth, maxDepth) ==
    CASE nodeType[n] = "text" -> <<>>
      [] nodeType[n] = "square-braces-parameter-block" ->
            <<Visit(n, depth)>> \o VisitWith(childNodes[n][1], depth + 1, maxDepth)
      [] OTHER ->
            <<Visit(n, depth)>>
            \o (IF depth < maxDepth THEN VisitAllWith(childNodes[n], depth + 1, maxDepth)
                ELSE <<>>)

\* a new MathNode out of the parser: the first node that does not exist yet
NewNode == CHOOSE n \in NodeIds \ Nodes : \A m \in NodeIds \ Nodes : n <= m

\* InlineMathNode.replaceChildNode(currentChildNode, newChildNode), replacing
\* whatever the content is
ReplaceContent(receiver, currentChildNode, newChildNode) ==
    /\ childNodes' = [childNodes EXCEPT ![receiver] = <<newChildNode>>]
    /\ observedChildNodes' =
          [observedChildNodes EXCEPT ![receiver] = (@ \ {currentChildNode}) \cup {newChildNode}]
    /\ errors' = errors
ReplaceWithoutObserving(receiver, currentChildNode, newChildNode) ==
    IF childNodes[receiver] = <<currentChildNode>>
    THEN /\ childNodes' = [childNodes EXCEPT ![receiver] = <<newChildNode>>]
         /\ observedChildNodes' =
               [observedChildNodes EXCEPT ![receiver] = @ \ {currentChildNode}]
         /\ errors' = errors
    ELSE /\ errors' = Append(errors, receiver)
         /\ UNCHANGED <<childNodes, observedChildNodes>>
\* InlineMathNode.replaceChildNode(currentChildNode, newChildNode)
ReplaceChildNode(receiver, currentChildNode, newChildNode) ==
    IF childNodes[receiver] = <<currentChildNode>>
    THEN /\ childNodes' = [childNodes EXCEPT ![receiver] = <<newChildNode>>]
         /\ observedChildNodes' =
               [observedChildNodes EXCEPT ![receiver] = (@ \ {currentChildNode}) \cup {newChildNode}]
         /\ errors' = errors
    ELSE /\ errors' = Append(errors, receiver)
         /\ UNCHANGED <<childNodes, observedChildNodes>>

\* an editing path replaces a MathNode, child of the InlineMathNode or not, by
\* a MathNode, newly parsed or not
Replace(receiver, currentChildNode, newChildNode) ==
    /\ nodeType' = [nodeType EXCEPT ![newChildNode] = "math"]
    /\ ReplaceChildNode(receiver, currentChildNode, newChildNode)
    /\ calls' = Append(calls, [receiver |-> receiver,
                               currentChildNode |-> currentChildNode,
                               newChildNode |-> newChildNode,
                               returned |-> TRUE])
    /\ UNCHANGED <<traversal, visits>>

\* a visitor is sent through the tree from some node
Traverse(start, depth, maxDepth) ==
    /\ traversal' = [start |-> start, depth |-> depth, maxDepth |-> maxDepth]
    /\ visits' = VisitWith(start, depth, maxDepth)
    /\ UNCHANGED <<nodeType, childNodes, observedChildNodes, errors, calls>>

ReplaceAny ==
    /\ Len(calls) < MaxReplacements
    /\ \E receiver \in NodesOfType("inline-math"), currentChildNode \in NodesOfType("math"),
          newChildNode \in NodesOfType("math") \cup {NewNode} :
          Replace(receiver, currentChildNode, newChildNode)
    /\ UNCHANGED <<queuerVars, extractorVars, positionVars, webviewVars>>

TraverseAny ==
    /\ \E start \in Nodes, depth \in 0..1, maxDepth \in (0..MaxDepth) \cup {MAX_SAFE_INTEGER} :
          /\ depth <= maxDepth
          /\ Traverse(start, depth, maxDepth)
    /\ UNCHANGED <<queuerVars, extractorVars, positionVars, webviewVars>>

NoTraversal == [start |-> 0, depth |-> 0, maxDepth |-> 0]

\* no tree was parsed
NoTree ==
    /\ nodeType = [n \in NodeIds |-> NoNode]
    /\ childNodes = [n \in NodeIds |-> <<>>]
    /\ observedChildNodes = [n \in NodeIds |-> {}]
    /\ errors = <<>>
    /\ calls = <<>>
    /\ traversal = NoTraversal
    /\ visits = <<>>

\* a tree as the parser made it: every node observes its child nodes
ParsedTree ==
    /\ \E k \in 0..MaxChildren : \E kinds \in [1..k -> ChildKinds] :
          /\ nodeType = ParsedNodeType(kinds)
          /\ childNodes = ParsedChildNodes(kinds)
          /\ observedChildNodes = [n \in NodeIds |-> Range(ParsedChildNodes(kinds)[n])]
    /\ errors = <<>>
    /\ calls = <<>>
    /\ traversal = NoTraversal
    /\ visits = <<>>

AstNext == ReplaceAny \/ TraverseAny

(***************************************************************************)
(* VisualisationViewManager                                                *)
(***************************************************************************)

CodeMappingIds == 1..MaxContents
\* AVAILABLE_VISUALISATION_FACTORIES, by visualisationName
FactoryNames == {"includegraphics", "tabular", "gridlayout", "mathematics"}
\* the data-name of the content the core may send: one with a view factory,
\* one without
ContentNames == {"mathematics", "unsupported"}
NoContent == "none"
\* null as a popup; null and undefined as a view
NoPopup == 0
NULL == [codeMappingId |-> 0, name |-> "null"]
UNDEFINED == [codeMappingId |-> 0, name |-> "undefined"]

\* factory.createView(contentNodeCopy, ...)
View(codeMappingId, name) == [codeMappingId |-> codeMappingId, name |-> name]
IsView(view) == view \notin {NULL, UNDEFINED}

\* the fields of the manager and the popups on screen, as one value
Manager ==
    [content |-> visualisationContent,
     view |-> currentlyDisplayedVisualisationView,
     popup |-> currentlyDisplayedVisualisationPopup,
     enable |-> enableVisualisations,
     open |-> openPopups,
     next |-> nextPopup,
     closings |-> closings]
Becomes(m) ==
    /\ visualisationContent' = m.content
    /\ currentlyDisplayedVisualisationView' = m.view
    /\ currentlyDisplayedVisualisationPopup' = m.popup
    /\ enableVisualisations' = m.enable
    /\ openPopups' = m.open
    /\ nextPopup' = m.next
    /\ closings' = m.closings

\* popup.close(): the popup leaves the screen and its close callback runs
\* (lines 95-105): the document of the view on display is saved if
\* visualisations are enabled, then both references are reset.  Without a
\* view on display the call of saveSourceDocument throws and the callback
\* stops there.
Close(m, p) ==
    LET saves == m.enable /\ IsView(m.view)
        throws == m.enable /\ ~IsView(m.view)
    IN [m EXCEPT !.open = @ \ {p},
                 !.closings = @ \cup {[popup |-> p, enabled |-> m.enable, saved |-> saves]},
                 !.view = IF throws THEN @ ELSE NULL,
                 !.popup = IF throws THEN @ ELSE NoPopup]

\* hideCurrentlyDisplayedVisualisation, lines 111-120
HideCurrentlyDisplayedVisualisation(m) ==
    IF ~IsView(m.view) THEN m
    ELSE [Close(m, m.popup) EXCEPT !.popup = NoPopup, !.view = NULL]

\* displayVisualisation, lines 69-109.  The test of line 83 repeats the one of
\* line 72, so a name without a factory goes on with an undefined view; what
\* the constructor of the popup does with it is not known: it throws
\* (`popupThrows`) or it opens a popup.
DisplayVisualisation(m, codeMappingId, popupThrows) ==
    IF m.content[codeMappingId] = NoContent THEN m
    ELSE LET name == m.content[codeMappingId]
             view == IF name \in FactoryNames THEN View(codeMappingId, name) ELSE UNDEFINED
         IN IF view = UNDEFINED /\ popupThrows THEN m
            ELSE [m EXCEPT !.view = view,
                           !.popup = m.next,
                           !.open = @ \cup {m.next},
                           !.next = @ + 1]

\* handleVisualisationDisplayRequest, lines 122-133
HandleVisualisationDisplayRequest(codeMappingId, popupThrows) ==
    /\ requests < MaxRequests
    /\ requests' = requests + 1
    /\ IF ~enableVisualisations THEN UNCHANGED managerVars
       ELSE Becomes(DisplayVisualisation(HideCurrentlyDisplayedVisualisation(Manager),
                                         codeMappingId, popupThrows))

\* handleOneVisualisationContentUpdate, lines 146-170: the content of one
\* visualisation is replaced or appended; the view on display is told
HandleOneVisualisationContentUpdate(codeMappingId, name) ==
    /\ visualisationContent' = [visualisationContent EXCEPT ![codeMappingId] = name]
    /\ UNCHANGED <<currentlyDisplayedVisualisationView, currentlyDisplayedVisualisationPopup,
                   enableVisualisations, openPopups, nextPopup, closings, requests>>

\* handleAllVisualisationsContentUpdate, lines 172-188
HandleAllVisualisationsContentUpdate(content) ==
    /\ visualisationContent' = content
    /\ UNCHANGED <<currentlyDisplayedVisualisationView, currentlyDisplayedVisualisationPopup,
                   enableVisualisations, openPopups, nextPopup, closings, requests>>

\* handleVisualisationStatusUpdate, lines 206-218
HandleVisualisationStatusUpdate(enable) ==
    /\ LET m == [Manager EXCEPT !.enable = enable]
       IN IF ~enable /\ m.popup # NoPopup THEN Becomes(Close(m, m.popup)) ELSE Becomes(m)
    /\ UNCHANGED requests

\* the user closes a popup that is on screen
UserClosesPopup(p) ==
    /\ p \in openPopups
    /\ Becomes(Close(Manager, p))
    /\ UNCHANGED requests

\* constructor, lines 44-62
NewManager ==
    /\ visualisationContent = [id \in CodeMappingIds |-> NoContent]
    /\ currentlyDisplayedVisualisationView = NULL
    /\ currentlyDisplayedVisualisationPopup = NoPopup
    /\ enableVisualisations = TRUE
    /\ openPopups = {}
    /\ nextPopup = 1
    /\ closings = {}
    /\ requests = 0

DisplayRequestAny ==
    /\ \E codeMappingId \in CodeMappingIds, popupThrows \in BOOLEAN :
          HandleVisualisationDisplayRequest(codeMappingId, popupThrows)
    /\ UNCHANGED <<queuerVars, extractorVars, positionVars, astVars>>
OneContentUpdateAny ==
    /\ \E codeMappingId \in CodeMappingIds, name \in ContentNames :
          HandleOneVisualisationContentUpdate(codeMappingId, name)
    /\ UNCHANGED <<queuerVars, extractorVars, positionVars, astVars>>
AllContentUpdateAny ==
    /\ \E content \in [CodeMappingIds -> ContentNames \cup {NoContent}] :
          HandleAllVisualisationsContentUpdate(content)
    /\ UNCHANGED <<queuerVars, extractorVars, positionVars, astVars>>
StatusUpdateAny ==
    /\ \E enable \in BOOLEAN : HandleVisualisationStatusUpdate(enable)
    /\ UNCHANGED <<queuerVars, extractorVars, positionVars, astVars>>
UserCloseAny ==
    /\ \E p \in openPopups : UserClosesPopup(p)
    /\ UNCHANGED <<queuerVars, extractorVars, positionVars, astVars>>

WebviewNext ==
    \/ DisplayRequestAny
    \/ OneContentUpdateAny
    \/ AllContentUpdateAny
    \/ StatusUpdateAny
    \/ UserCloseAny

(***************************************************************************)
(* Specifications                                                          *)
(***************************************************************************)

\* a new queuer (beside an extractor that is never called)
QueueInit == QueuerInit /\ EmptyDocument /\ ExtractionInit /\ NoPositions /\ NoTree /\ NewManager

\* a new extractor for any document (beside a queuer that is never used)
ExtractInit == QueuerInit /\ AnyDocument /\ ExtractionInit /\ NoPositions /\ NoTree /\ NewManager

\* the queuer, any interleaving of submissions, completions and resumptions
QueueSpec == QueueInit /\ [][QueuerNext]_vars

\* the same under a fair scheduler: a started task eventually settles and a
\* continuation that can run eventually runs; nothing forces a call of add
QueueFairSpec ==
    /\ QueueSpec
    /\ WF_vars(CompleteAny \/ FailAny)
    /\ WF_vars(ResumeAny)
    /\ WF_vars(ThrowAny)
    /\ WF_vars(UnwindAny)

\* parsed positions (beside a queuer and an extractor that are never used)
PositionInit == QueuerInit /\ EmptyDocument /\ ExtractionInit /\ PositionsInit /\ NoTree /\ NewManager

\* a parsed position (beside a queuer and an extractor that are never used)
ShiftInit == QueuerInit /\ EmptyDocument /\ ExtractionInit /\ OnePositionInit /\ NoTree /\ NewManager

\* a position shifted by up to MaxShifts edits
ShiftSpec == ShiftInit /\ [][PositionNext]_vars

\* a position shifted by up to MaxShifts edits, beside another position
PositionSpec == PositionInit /\ [][PositionNext]_vars

\* a parsed tree (beside a queuer and an extractor that are never used)
AstInit == QueuerInit /\ EmptyDocument /\ ExtractionInit /\ NoPositions /\ ParsedTree /\ NewManager

\* a parsed tree, edited by up to MaxReplacements replacements and traversed
AstSpec == AstInit /\ [][AstNext]_vars

\* a new popup manager (beside a queuer and an extractor that are never used)
WebviewInit == QueuerInit /\ EmptyDocument /\ ExtractionInit /\ NoPositions /\ NoTree /\ NewManager

\* the popup manager handling up to MaxRequests display requests, any content
\* and status updates, and the user closing popups
WebviewSpec == WebviewInit /\ [][WebviewNext]_vars

\* the extractor called MaxRuns times on any document
ExtractSpec == ExtractInit /\ [][ExtractorNext]_vars

(***************************************************************************)
(* Properties of the TaskQueuer                                            *)
(***************************************************************************)

Queued == Range(queue)
SomeTaskFailed == \E t \in Tasks : taskState[t] = "rejected"
\* the queuer is Idle: no invocation of runAllTasks is pending
QueuerIdle == drains = <<>>

\* C1: at most one submitted task is in flight (started and not yet
\* completed) at any instant, whatever the interleaving of add calls,
\* completions and resumptions of runAllTasks.
MutualExclusion == Cardinality(InFlight) <= 1

\* C2: tasks are started in exactly the order in which they were submitted:
\* the i-th started task is the i-th submitted one.
FifoStartOrder == \A i \in DOMAIN started : started[i] = i

\* C2 witness: A, B, C submitted before any resolves, D submitted while B is
\* running, and the four were started in the order A, B, C, D.
FifoStartOrderWitness ==
    /\ started = <<1, 2, 3, 4>>
    /\ \A t \in 1..3 : runningAtAdd[t] \subseteq {1}
    /\ runningAtAdd[4] = {2}

\* C3: a failed task does not halt the queue: once a task has failed, every
\* task that is (or comes to be) in the queue is eventually started.
FailureDoesNotHaltQueue ==
    \A t \in Tasks : (SomeTaskFailed /\ t \in Queued) ~> (taskState[t] # "pending")

\* C4: whenever the queuer has returned to Idle (isRunningTask is false and
\* no step of a drain is pending) the queue is empty.
DrainCompleteness == (~isRunningTask /\ QueuerIdle) => queue = <<>>

\* C5: if every started task completes, every task passed to add is eventually
\* started, without any further call of add.
EverySubmittedTaskStarts ==
    \A t \in Tasks : (t \in Queued) ~> (taskState[t] # "pending" \/ SomeTaskFailed)

\* C6: add appends the tasks to the tail of the queue and starts the drain if
\* and only if the queuer is Idle at the call; when a task is running it starts
\* nothing and leaves the running task and the queued tasks as they are.
AddStartsDrainIffIdle ==
    [][nextId' > nextId =>
        LET tasks == [i \in 1..(nextId' - nextId) |-> nextId + i - 1]
        IN /\ (started' # started) <=> (QueuerIdle /\ InFlight = {})
           /\ started' = started => queue' = queue \o tasks
           /\ started' # started => <<started'[Len(started')]>> \o queue' = queue \o tasks
           /\ InFlight # {} => /\ started' = started
                               /\ InFlight' = InFlight
                               /\ queue' = queue \o tasks]_vars

\* C22: whenever a started task has not yet completed, isRunningTask is
\* true: no unwinding runAllTasks invocation lowers the flag under a task in
\* flight.
FlagConsistency == InFlight # {} => isRunningTask

(***************************************************************************)
(* Properties of the VisualisationModelExtractor                           *)
(***************************************************************************)

ModelsOf(models, provider, file) ==
    {i \in DOMAIN models : models[i].provider = provider /\ models[i].sourceFile = file}
\* the (node, code mapping, source file) pairings of a list of models
Pairings(models) ==
    {[astNode |-> models[i].astNode, codeMapping |-> models[i].codeMapping,
      sourceFile |-> models[i].sourceFile] : i \in DOMAIN models}

\* C7: within one call, each code mapping is bound to at most one produced
\* model and each AST node is bound to at most one produced model, whatever
\* the providers accept and whatever their candidates are.
NoDoublePairing ==
    \A i, j \in DOMAIN extractedModels :
        i # j => /\ extractedModels[i].codeMapping # extractedModels[j].codeMapping
                 /\ extractedModels[i].astNode # extractedModels[j].astNode

\* C8: for every (provider, source file), the models produced by the two
\* phases are at most min(code mappings of the provider in the file,
\* candidate nodes of the provider in the file).
CountBound ==
    \A provider \in Providers, file \in SourceFiles :
        Cardinality(ModelsOf(extractedModels, provider, file))
            <= Min(Len(CodeMappingsOfProvider(provider, file)),
                   Len(CandidateAstNodes(provider, file)))

\* C8 witness: a finished call in which a provider with more code mappings
\* than candidates (or the reverse) got as many models as the smaller number,
\* one of them from the approximate phase.
CountBoundWitness ==
    /\ pc = "idle"
    /\ results # <<>>
    /\ \E provider \in Providers, file \in SourceFiles :
         /\ Len(CodeMappingsOfProvider(provider, file)) # Len(CandidateAstNodes(provider, file))
         /\ Cardinality(ModelsOf(extractedModels, provider, file))
                = Min(Len(CodeMappingsOfProvider(provider, file)),
                      Len(CandidateAstNodes(provider, file)))
         /\ \E i \in ModelsOf(extractedModels, provider, file) :
                extractedModels[i].phase = "approximate"

\* C9: whenever the correlation of a (provider, source file) leaves code
\* mappings or nodes unpaired, a warning is reported for them, also when only
\* code mappings or only nodes remain after the exact-match phase.
LeftoversAreWarned ==
    \A l \in leftovers :
        /\ l.codeMappings # {} =>
                Warning(l.provider, l.sourceFile, "codeMappings", l.codeMappings) \in warnings
        /\ l.astNodes # {} =>
                Warning(l.provider, l.sourceFile, "astNodes", l.astNodes) \in warnings

IndexIn(s, x) == CHOOSE i \in DOMAIN s : s[i] = x

\* the models made so far for a (provider, source file), in the order made
ModelsFor(provider, file) ==
    SelectSeq(extractedModels, LAMBDA m : m.provider = provider /\ m.sourceFile = file)

\* every code mapping of the array has a node of its own on the line before its
EveryCodeMappingHasItsOwnNode(cms, nodes) ==
    \A line \in 1..(MaxLine + 1) :
        Cardinality({i \in DOMAIN cms : cms[i].lineNumber = line})
            <= Cardinality({i \in DOMAIN nodes : nodes[i].from.initialLine = line - 1})

\* C11: the exact-match phase takes the code mappings in their given order
\* and pairs the one of line L with the first still-unused candidate that
\* starts on line L-1, if there is one; the pair leaves both unused sets and
\* the mapping is paired once.  When every code mapping has its own node on
\* line L-1 the approximate phase pairs nothing.
ExactMatchPhaseAsSpecified ==
    /\ pc = "approx" =>
        LET provider == Head(usefulModelProviders)
            cms == CodeMappingsOfProvider(provider, sourceFile)
            nodes == CandidateAstNodes(provider, sourceFile)
            made == ModelsFor(provider, sourceFile)
        IN /\ \A k \in DOMAIN cms :
                LET earlier == {made[i].astNode : i \in
                                  {i \in DOMAIN made : IndexIn(cms, made[i].codeMapping) < k}}
                    free == SelectSeq(nodes, LAMBDA n :
                                /\ n.from.initialLine = cms[k].lineNumber - 1
                                /\ n \notin earlier)
                    mine == {i \in DOMAIN made : made[i].codeMapping = cms[k]}
                IN IF free = <<>>
                   THEN mine = {} /\ cms[k] \in unusedCodeMappings
                   ELSE /\ Cardinality(mine) = 1
                        /\ \A i \in mine : made[i].astNode = free[1] /\ made[i].phase = "exact"
                        /\ cms[k] \notin unusedCodeMappings
                        /\ free[1] \notin unusedAstNodes
           /\ \A i, j \in DOMAIN made :
                i < j => IndexIn(cms, made[i].codeMapping) < IndexIn(cms, made[j].codeMapping)
           /\ unusedAstNodes = Range(nodes) \ {made[i].astNode : i \in DOMAIN made}
    /\ \A l \in leftovers :
        EveryCodeMappingHasItsOwnNode(CodeMappingsOfProvider(l.provider, l.sourceFile),
                                      CandidateAstNodes(l.provider, l.sourceFile))
            => /\ l.codeMappings = {}
               /\ \A i \in DOMAIN extractedModels :
                    (extractedModels[i].provider = l.provider
                        /\ extractedModels[i].sourceFile = l.sourceFile)
                    => extractedModels[i].phase = "exact"

\* C11 witness: the exact-match phase has just paired two code mappings of
\* the same line number, the second with the second node of the line before.
ExactMatchPhaseWitness ==
    /\ pc = "approx"
    /\ LET made == ModelsFor(Head(usefulModelProviders), sourceFile)
       IN /\ Len(made) = 2
          /\ made[1].codeMapping.lineNumber = made[2].codeMapping.lineNumber
          /\ made[1].astNode # made[2].astNode

\* the models the step appends to extractedModels
NewModels == SubSeq(extractedModels', Len(extractedModels) + 1, Len(extractedModels'))

\* C12: when both unused sets are non-empty after the exact-match phase, the
\* approximate phase makes exactly min(remaining code mappings, remaining
\* nodes) pairs; the i-th pair binds an i-th lowest remaining code mapping (by
\* line number) to an i-th lowest remaining node (by start position), and the
\* surplus of the longer list stays unpaired.
ApproximatePhaseAsSpecified ==
    [][(pc = "approx" /\ unusedCodeMappings # {} /\ unusedAstNodes # {}) =>
        /\ Len(NewModels) = Min(Cardinality(unusedCodeMappings), Cardinality(unusedAstNodes))
        /\ \A i \in DOMAIN NewModels :
            LET cm == NewModels[i].codeMapping
                node == NewModels[i].astNode
            IN /\ NewModels[i].phase = "approximate"
               /\ cm \in unusedCodeMappings
               /\ node \in unusedAstNodes
               /\ Cardinality({m \in unusedCodeMappings : m.lineNumber < cm.lineNumber}) < i
               /\ Cardinality({m \in unusedCodeMappings : m.lineNumber <= cm.lineNumber}) >= i
               /\ Cardinality({n \in unusedAstNodes :
                        CompareInAscendingOrder(n.from, node.from) < 0}) < i
               /\ Cardinality({n \in unusedAstNodes :
                        CompareInAscendingOrder(n.from, node.from) <= 0}) >= i
        /\ \A i, j \in DOMAIN NewModels :
            i # j => /\ NewModels[i].codeMapping # NewModels[j].codeMapping
                     /\ NewModels[i].astNode # NewModels[j].astNode
        /\ unusedCodeMappings' =
                unusedCodeMappings \ {NewModels[i].codeMapping : i \in DOMAIN NewModels}
        /\ unusedAstNodes' =
                unusedAstNodes \ {NewModels[i].astNode : i \in DOMAIN NewModels}
      ]_vars

\* C12 witness: the approximate phase has paired two code mappings that were
\* given in descending order of line number, the lower one first.
ApproximatePhaseWitness ==
    \E i, j \in DOMAIN extractedModels :
        /\ i < j
        /\ extractedModels[i].provider = extractedModels[j].provider
        /\ extractedModels[i].phase = "approximate"
        /\ extractedModels[j].phase = "approximate"
        /\ extractedModels[i].codeMapping.lineNumber < extractedModels[j].codeMapping.lineNumber
        /\ extractedModels[i].codeMapping.id > extractedModels[j].codeMapping.id

\* the models of a list are built from parts that agree
ModelsAgree(models) ==
    \A i \in DOMAIN models :
        LET m == models[i]
        IN /\ m.provider \in Providers
           /\ m.sourceFile \in SourceFiles
           /\ m.codeMapping \in Range(codeMappings)
           /\ m.codeMapping.sourceFile = m.sourceFile
           /\ CanProvideForCodeMapping(m.provider, m.codeMapping)
           /\ m.astNode \in Range(CandidateAstNodes(m.provider, m.sourceFile))

ExactlyMinModels ==
    /\ \A r \in DOMAIN results : \A provider \in Providers, file \in SourceFiles :
          Cardinality(ModelsOf(results[r], provider, file))
              = Min(Len(CodeMappingsOfProvider(provider, file)),
                    Len(CandidateAstNodes(provider, file)))
    /\ \A l \in leftovers : l.codeMappings = {} \/ l.astNodes = {}
    /\ \A w1 \in warnings, w2 \in warnings :
          (w1.provider = w2.provider /\ w1.sourceFile = w2.sourceFile) => w1.kind = w2.kind

\* C20 witness: a call returned, in which the approximate phase emptied both
\* unused sets of one provider and left code mappings of another unpaired.
ExactlyMinModelsWitness ==
    /\ results # <<>>
    /\ \E provider \in Providers, file \in SourceFiles :
          /\ Len(CodeMappingsOfProvider(provider, file)) = 2
          /\ Len(CandidateAstNodes(provider, file)) = 2
          /\ \A i \in ModelsOf(results[1], provider, file) : results[1][i].phase = "approximate"
          /\ Cardinality(ModelsOf(results[1], provider, file)) = 2
    /\ \E w \in warnings : w.kind = "codeMappings"

\* the node starts on the line before the code mapping's
IsExactLineMatch(node, codeMapping) == node.from.initialLine = codeMapping.lineNumber - 1

\* C21: after the exact-match phase no still-unused code mapping and
\* still-unused candidate node are an exact line match, and no pair made by
\* the approximate phase is one.
ExactMatchesTakePriority ==
    /\ pc = "approx" =>
          \A m \in unusedCodeMappings, n \in unusedAstNodes : ~IsExactLineMatch(n, m)
    /\ \A i \in DOMAIN extractedModels :
          extractedModels[i].phase = "approximate"
              => ~IsExactLineMatch(extractedModels[i].astNode, extractedModels[i].codeMapping)

\* C21 witness: a provider got a pair from the exact-match phase and then a
\* pair from the approximate phase, whose node starts on a later line than
\* the first pair's.
ExactMatchesTakePriorityWitness ==
    \E i \in DOMAIN extractedModels, j \in DOMAIN extractedModels :
        /\ extractedModels[i].provider = extractedModels[j].provider
        /\ extractedModels[i].phase = "exact"
        /\ extractedModels[j].phase = "approximate"
        /\ extractedModels[j].astNode.from.initialLine
              > extractedModels[i].astNode.from.initialLine

(***************************************************************************)
(* Properties of SourceFilePosition                                        *)
(***************************************************************************)

SameEffectiveCoordinates(p1, p2) ==
    /\ EffectiveLine(p1) = EffectiveLine(p2)
    /\ EffectiveColumn(p1) = EffectiveColumn(p2)

Positions == {trail[1], Current, other}

Before(p1, p2) == CompareInAscendingOrder(p1, p2) < 0
Equal(p1, p2) == CompareInAscendingOrder(p1, p2) = 0
After(p1, p2) == CompareInAscendingOrder(p1, p2) > 0

\* C14: the comparison of positions is a strict total order over effective
\* coordinates: exactly one of before/equal/after holds, p1 is before p2 iff
\* p2 is after p1, before is transitive, and p1 is before p2 exactly when its
\* effective line is lower, or the same with a lower effective column.
CompareIsStrictTotalOrder ==
    LET ps == Positions
    IN \A p1 \in ps, p2 \in ps :
          LET compared == CompareInAscendingOrder(p1, p2)
              before == compared < 0
              equal == compared = 0
              after == compared > 0
          IN /\ (before /\ ~equal /\ ~after)
                  \/ (~before /\ equal /\ ~after)
                  \/ (~before /\ ~equal /\ after)
             /\ before <=> After(p2, p1)
             /\ equal <=> SameEffectiveCoordinates(p1, p2)
             /\ before <=>
                  \/ EffectiveLine(p1) < EffectiveLine(p2)
                  \/ /\ EffectiveLine(p1) = EffectiveLine(p2)
                     /\ EffectiveColumn(p1) < EffectiveColumn(p2)
             /\ before => \A p3 \in ps : Before(p2, p3) => Before(p1, p3)

\* C14 witness: three positions in a strict chain, two of them in the
\* opposite order of their initial coordinates.
CompareIsStrictTotalOrderWitness ==
    /\ \E p1 \in Positions, p2 \in Positions, p3 \in Positions :
          /\ Before(p1, p2)
          /\ Before(p2, p3)
          /\ p1.initialLine > p2.initialLine

(***************************************************************************)
(* Properties of the AST nodes                                             *)
(***************************************************************************)

\* the latest call of replaceChildNode, once the step is taken
LatestCall == calls'[Len(calls')]

\* C15: replaceChildNode(current, new) called with a node that is not a child
\* of the receiver changes neither the receiver's child nodes nor the child
\* nodes it observes, reports one error, and returns without throwing.
ReplacingNonChildIsNoOp ==
    [][(Len(calls') = Len(calls) + 1
        /\ LatestCall.currentChildNode \notin Range(childNodes[LatestCall.receiver]))
       => /\ childNodes' = childNodes
          /\ observedChildNodes' = observedChildNodes
          /\ errors' = Append(errors, LatestCall.receiver)
          /\ LatestCall.returned]_vars

\* C15 witness: a call of replaceChildNode with a node that is not a child of
\* the receiver was made and reported.
ReplacingNonChildIsNoOpWitness ==
    /\ Len(calls) = 1
    /\ Len(errors) = 1
    /\ calls[1].currentChildNode \notin Range(childNodes[calls[1].receiver])
    /\ nodeType[calls[1].newChildNode] = "math"
    /\ \A n \in Nodes : observedChildNodes[n] = Range(childNodes[n])

\* the step is a call of replaceChildNode with a child node of the receiver
ReplacesChildNode ==
    /\ Len(calls') = Len(calls) + 1
    /\ LatestCall.currentChildNode \in Range(childNodes[LatestCall.receiver])

\* what the step does to the receiver: the new node takes the slot of the
\* current one, exactly the child nodes are observed, and neither the rest of
\* the receiver nor any other node changes
InstallsNewChildNode ==
    LET receiver == LatestCall.receiver
        current == LatestCall.currentChildNode
        new == LatestCall.newChildNode
    IN /\ childNodes'[receiver] =
             [i \in DOMAIN childNodes[receiver] |->
                 IF childNodes[receiver][i] = current THEN new ELSE childNodes[receiver][i]]
       /\ new \in Range(childNodes'[receiver])
       /\ observedChildNodes'[receiver] = Range(childNodes'[receiver])
       /\ nodeType'[receiver] = nodeType[receiver]
       /\ errors' = errors
       /\ LatestCall.returned
       /\ \A n \in NodeIds \ {receiver} :
             /\ childNodes'[n] = childNodes[n]
             /\ observedChildNodes'[n] = observedChildNodes[n]

\* C23 as claimed: a successful replaceChildNode(current, new) puts new in the
\* slot of current, observes exactly the child nodes, changes nothing else of
\* the parent, and current is no child any more.
ReplacingChildRemovesCurrent ==
    [][ReplacesChildNode
       => /\ InstallsNewChildNode
          /\ LatestCall.currentChildNode \notin Range(childNodes'[LatestCall.receiver])]_vars

\* C23 as amended: a successful replaceChildNode(current, new) puts new in the
\* slot of current, observes exactly the child nodes, changes nothing else of
\* the parent, and current is no child any more unless new is current.
ReplacingChildInstallsNew ==
    [][ReplacesChildNode
       => /\ InstallsNewChildNode
          /\ LatestCall.newChildNode # LatestCall.currentChildNode
                => LatestCall.currentChildNode \notin Range(childNodes'[LatestCall.receiver])]_vars

\* C23 witness: the content of an InlineMathNode was replaced by a newly
\* parsed node; the old content has no parent left.
ReplacingChildInstallsNewWitness ==
    /\ Len(calls) = 1
    /\ errors = <<>>
    /\ calls[1].newChildNode # calls[1].currentChildNode
    /\ childNodes[calls[1].receiver] = <<calls[1].newChildNode>>
    /\ observedChildNodes[calls[1].receiver] = {calls[1].newChildNode}
    /\ \A n \in Nodes : calls[1].currentChildNode \notin Range(childNodes[n])

\* C16: a traversal started at depth d <= maxDepth passes no node at a depth
\* greater than maxDepth to the visitor.
BoundedTraversal ==
    traversal.depth <= traversal.maxDepth
        => \A i \in DOMAIN visits : visits[i].depth <= traversal.maxDepth

\* the places a node is held as a child: <<parent, index>>
ParentSlots(n) == {ps \in Nodes \X (1..MaxChildren) :
                      ps[2] \in DOMAIN childNodes[ps[1]] /\ childNodes[ps[1]][ps[2]] = n}
\* the nodes reached from n in at most k steps down
RECURSIVE DescendantsWithin(_, _)
DescendantsWithin(n, k) ==
    IF k = 0 THEN {}
    ELSE Range(childNodes[n])
         \cup UNION {DescendantsWithin(c, k - 1) : c \in Range(childNodes[n])}
Descendants(n) == DescendantsWithin(n, Cardinality(NodeIds))

\* C17: after any sequence of replaceChildNode operations on a parsed tree
\* every node of the tree but the root is a child of exactly one parent, no
\* node is held by two parents, and no node is reachable from itself.
TreeOwnership ==
    /\ \A n \in Descendants(Root) : Cardinality(ParentSlots(n)) = 1
    /\ \A n \in Nodes : Cardinality(ParentSlots(n)) <= 1
    /\ \A n \in Nodes : n \notin Descendants(n)

\* C18: a traversal with no depth limit passes every node of the subtree to
\* the visitor exactly once, the start node first and at the given depth,
\* each parent before its children and each child at its parent's depth + 1.
PreOrderCoverage ==
    (traversal # NoTraversal /\ traversal.maxDepth = MAX_SAFE_INTEGER)
        => /\ {visits[i].node : i \in DOMAIN visits}
                 = {traversal.start} \cup Descendants(traversal.start)
           /\ \A i \in DOMAIN visits, j \in DOMAIN visits :
                 visits[i].node = visits[j].node => i = j
           /\ visits # <<>> /\ visits[1] = Visit(traversal.start, traversal.depth)
           /\ \A i \in DOMAIN visits, j \in DOMAIN visits :
                 visits[j].node \in Range(childNodes[visits[i].node])
                     => i < j /\ visits[j].depth = visits[i].depth + 1

(***************************************************************************)
(* Properties of the VisualisationViewManager                              *)
(***************************************************************************)

\* C24: after any sequence of display requests, content updates, status
\* updates and popup closes at most one popup is open, and the view and the
\* popup on display are both set or both null.
OnePopupAtMost ==
    /\ Cardinality(openPopups) <= 1
    /\ \/ IsView(currentlyDisplayedVisualisationView)
          /\ currentlyDisplayedVisualisationPopup # NoPopup
       \/ currentlyDisplayedVisualisationView = NULL
          /\ currentlyDisplayedVisualisationPopup = NoPopup

\* the popups the step closes
ClosedByStep == {c \in closings' : c \notin closings}

\* C25: a closed popup saved the source document if and only if
\* visualisations were enabled at that moment; a status update that disables
\* visualisations closes the popup on display without saving; a display
\* request handled while visualisations are disabled changes nothing.
SavedIffEnabled ==
    /\ [](\A c \in closings : c.saved <=> c.enabled)
    /\ [][(enableVisualisations /\ ~enableVisualisations')
            => /\ currentlyDisplayedVisualisationPopup' = NoPopup
               /\ currentlyDisplayedVisualisationPopup \notin openPopups'
               /\ \A c \in ClosedByStep : ~c.saved]_vars
    /\ [][(requests' # requests /\ ~enableVisualisations) => UNCHANGED managerVars]_vars

====
